---- MODULE Spec2Model ----
(***************************************************************************)
(* Model of Montecarlo.py: the Monte Carlo NPV engine                      *)
(* (monte_carlo_simulation) and the "Run Simulation" handler that          *)
(* summarises its result with np.mean / np.percentile.                     *)
(*                                                                         *)
(* Real numbers are exact rationals <<numerator, denominator>> in lowest   *)
(* terms with a positive denominator; <<0, 0>> stands for NaN.  The        *)
(* arithmetic is the arithmetic the source writes, operator by operator;   *)
(* binary64 rounding is not part of the model.                             *)
(***************************************************************************)
EXTENDS Integers, Sequences, FiniteSets

VARIABLES
    num_simulations, years, discount_rate, base_sales, sales_deviation,
    variable_cost_pct, fixed_costs, tax_rate, initial_investment,
    pc, npv_simulations, simulated_sales, net_cash_flows,
    costs, gross_profit, taxes, net_cash_flow, npv,
    npv_mean, percentile_5, percentile_95, raised, draws, trial, year

args == <<num_simulations, years, discount_rate, base_sales, sales_deviation,
          variable_cost_pct, fixed_costs, tax_rate, initial_investment>>

locals == <<costs, gross_profit, taxes, net_cash_flow>>

stats == <<npv_mean, percentile_5, percentile_95, raised>>

vars == <<args, pc, npv_simulations, simulated_sales, net_cash_flows,
          locals, npv, stats, draws, trial, year>>

(* ------------------------------ bounds -------------------------------- *)

MaxSims == 2

MaxYears == 2

(* --------------------------- real arithmetic -------------------------- *)

(* Python evaluates an operand once, before the operation is applied: the *)
(* operators below bind their operands' values before they compute.       *)

Abs(a) == IF a < 0 THEN -a ELSE a

RECURSIVE GCD(_, _)
GCD(a, b) == IF b = 0 THEN a ELSE GCD(b, a % b)

LCM(a, b) == (a \div GCD(a, b)) * b

Reduce(n, d) ==
    LET g == GCD(Abs(n), Abs(d))
        s == IF d < 0 THEN -1 ELSE 1
    IN  <<(s * n) \div g, (s * d) \div g>>

Rat(n, d) == CHOOSE r \in {Reduce(x, y) : x \in {n}, y \in {d}} : TRUE

NaN == <<0, 0>>

Zero == Rat(0, 1)

One == Rat(1, 1)

Sum(a, b) ==
    LET l == LCM(a[2], b[2])
    IN  Rat(a[1] * (l \div a[2]) + b[1] * (l \div b[2]), l)

RAdd(a, b) == CHOOSE r \in {Sum(x, y) : x \in {a}, y \in {b}} : TRUE

Difference(a, b) == Sum(a, <<-b[1], b[2]>>)

RSub(a, b) == CHOOSE r \in {Difference(x, y) : x \in {a}, y \in {b}} : TRUE

Product(a, b) ==
    LET g1 == GCD(Abs(a[1]), b[2])
        g2 == GCD(Abs(b[1]), a[2])
    IN  Rat((a[1] \div g1) * (b[1] \div g2), (a[2] \div g2) * (b[2] \div g1))

RMul(a, b) == CHOOSE r \in {Product(x, y) : x \in {a}, y \in {b}} : TRUE

Quotient(a, b) == Product(a, Rat(b[2], b[1]))

RDiv(a, b) == CHOOSE r \in {Quotient(x, y) : x \in {a}, y \in {b}} : TRUE

Less(a, b) ==
    LET l == LCM(a[2], b[2])
    IN  a[1] * (l \div a[2]) < b[1] * (l \div b[2])

RLess(a, b) == CHOOSE r \in {Less(x, y) : x \in {a}, y \in {b}} : TRUE

LessEq(a, b) == a = b \/ Less(a, b)

RLeq(a, b) == CHOOSE r \in {LessEq(x, y) : x \in {a}, y \in {b}} : TRUE

RECURSIVE RPow(_, _)
RPow(x, k) == IF k = 0 THEN One ELSE RMul(x, RPow(x, k - 1))

RFloor(a) == a[1] \div a[2]

(* ----------------------- monte_carlo_simulation ----------------------- *)

(* Standard normal deviates the random source may deliver. *)
Deviates == {Rat(-3, 1), Rat(1, 1)}

(* np.random.normal(loc, scale, size): loc + scale * z for each deviate z. *)
Normal(loc, scale, z) == [k \in 1..Len(z) |-> RAdd(loc, RMul(scale, z[k]))]

Costs(s) == RAdd(RMul(variable_cost_pct, s), fixed_costs)

GrossProfit(s) == RSub(s, Costs(s))

TaxesClampedAtZero(s) ==
    IF RLess(GrossProfit(s), Zero) THEN Zero
    ELSE RMul(GrossProfit(s), tax_rate)

Taxes(s) == RMul(GrossProfit(s), tax_rate)

NetCashFlow(s) == RSub(GrossProfit(s), Taxes(s))

RECURSIVE PySum(_, _)
PySum(f, n) == IF n = 0 THEN Zero ELSE RAdd(PySum(f, n - 1), f[n])

DiscountedFromYearZero(flows, rate, n) ==
    [k \in 1..n |-> RDiv(flows[k], RPow(RAdd(One, rate), k - 1))]

Discounted(flows, rate, n) ==
    [k \in 1..n |-> RDiv(flows[k], RPow(RAdd(One, rate), k))]

NPVInvestmentInsideSum(flows, rate, n, investment) ==
    PySum([k \in 1..n |-> RSub(Discounted(flows, rate, n)[k], investment)], n)

NPV(flows, rate, n, investment) ==
    RSub(PySum(Discounted(flows, rate, n), n), investment)

LoopOneTooMany(done, n) == done <= n

LoopAtLeastOnce(done, n) == done < n \/ done = 0

LoopContinues(done, n) == done < n

KeepCashFlows(old) == old

ResetCashFlows(old) == << >>

PrependResult(results, x) == <<x>> \o results

AppendResult(results, x) == Append(results, x)

(* The NPV of one trial as a function of its sampled sales (lines 10-18). *)
TrialNPV(sales, investment) ==
    NPV([k \in 1..Len(sales) |-> NetCashFlow(sales[k])],
        discount_rate, years, investment)

(* The i-th block of `years` draws of a random stream (line 9). *)
Block(stream, i) == SubSeq(stream, (i - 1) * years + 1, i * years)

(* The engine as a function of the random stream it consumes (lines 5-20). *)
monte_carlo_simulation(stream, investment) ==
    [i \in 1..num_simulations |-> TrialNPV(Block(stream, i), investment)]

(* ------------------------- summary statistics ------------------------- *)

(* np.add.reduce: the sum of a[lo..hi], taken pairwise. *)
RECURSIVE AddReduce(_, _, _)
AddReduce(a, lo, hi) ==
    IF lo > hi THEN Zero
    ELSE IF lo = hi THEN a[lo]
    ELSE LET mid == (lo + hi) \div 2
         IN  RAdd(AddReduce(a, lo, mid), AddReduce(a, mid + 1, hi))

MeanZeroOnEmpty(a) ==
    IF Len(a) = 0 THEN Zero
    ELSE RDiv(AddReduce(a, 1, Len(a)), Rat(Len(a), 1))

(* np.mean(a): the sum over the count; 0/0 = nan for an empty array. *)
Mean(a) ==
    IF Len(a) = 0 THEN NaN
    ELSE RDiv(AddReduce(a, 1, Len(a)), Rat(Len(a), 1))

RECURSIVE Insert(_, _)
Insert(x, sq) ==
    IF sq = << >> THEN <<x>>
    ELSE IF RLeq(x, Head(sq)) THEN <<x>> \o sq
    ELSE <<Head(sq)>> \o Insert(x, Tail(sq))

Unsorted(a) == a

RECURSIVE Sort(_)
Sort(a) == IF a = << >> THEN << >> ELSE Insert(Head(a), Sort(Tail(a)))

Lerp(a, b, t) == RAdd(a, RMul(RSub(b, a), t))

PercentileLower(a, q) ==
    LET n == Len(a)
        arr == Sort(a)
        virtual == RMul(Rat(n - 1, 1), RDiv(Rat(q, 1), Rat(100, 1)))
    IN  arr[RFloor(virtual) + 1]

(* np.percentile(a, q), default method "linear", for a non-empty a. *)
Percentile(a, q) ==
    LET n == Len(a)
        arr == Sort(a)
        virtual == RMul(Rat(n - 1, 1), RDiv(Rat(q, 1), Rat(100, 1)))
        previous == RFloor(virtual)
        next == IF previous + 1 > n - 1 THEN n - 1 ELSE previous + 1
        gamma == RSub(virtual, Rat(previous, 1))
    IN  Lerp(arr[previous + 1], arr[next + 1], gamma)

(* What np.percentile does with an empty array depends on the numpy     *)
(* release: older ones return nan, newer ones raise IndexError.         *)
EmptyPercentile == {"nan", "IndexError"}

(* ------------------------------ the program --------------------------- *)

None == << >>

DiscountRates == {Rat(1, 10), Rat(1, 4)}

BaseSales == {Rat(1000, 1)}

SalesDeviations == {Rat(0, 1), Rat(1, 2)}

VariableCostPcts == {Rat(2, 5)}

FixedCosts == {Rat(200, 1)}

TaxRates == {Rat(0, 1), Rat(3, 10), Rat(1, 1)}

InitialInvestments == {Rat(2000, 1), Rat(500, 1)}

Init ==
    /\ num_simulations \in 0..MaxSims
    /\ years \in 1..MaxYears
    /\ discount_rate \in DiscountRates
    /\ base_sales \in BaseSales
    /\ sales_deviation \in SalesDeviations
    /\ variable_cost_pct \in VariableCostPcts
    /\ fixed_costs \in FixedCosts
    /\ tax_rate \in TaxRates
    /\ initial_investment \in InitialInvestments
    /\ pc = "idle"
    /\ npv_simulations = None
    /\ simulated_sales = None
    /\ net_cash_flows = None
    /\ costs = None
    /\ gross_profit = None
    /\ taxes = None
    /\ net_cash_flow = None
    /\ npv = None
    /\ npv_mean = None
    /\ percentile_5 = None
    /\ percentile_95 = None
    /\ raised = "none"
    /\ draws = << >>
    /\ trial = 0
    /\ year = 0

(* Lines 44-45 and 7: the button calls the engine, which starts empty. *)
RunSimulation ==
    /\ pc = "idle"
    /\ npv_simulations' = << >>
    /\ trial' = 0
    /\ pc' = "trials"
    /\ UNCHANGED <<args, simulated_sales, net_cash_flows, locals, npv, stats,
                   draws, year>>

(* Lines 8-10: the next trial draws its sales path. *)
BeginTrial ==
    /\ pc = "trials"
    /\ LoopContinues(trial, num_simulations)
    /\ \E z \in [1..years -> Deviates] :
          /\ simulated_sales' =
                Normal(base_sales, RMul(sales_deviation, base_sales), z)
          /\ draws' = draws \o simulated_sales'
    /\ net_cash_flows' = ResetCashFlows(net_cash_flows)
    /\ year' = 0
    /\ pc' = "years"
    /\ UNCHANGED <<args, npv_simulations, locals, npv, stats, trial>>

(* Lines 11-17: one year of the trial. *)
YearStep ==
    /\ pc = "years"
    /\ year < Len(simulated_sales)
    /\ LET s == simulated_sales[year + 1]
       IN  /\ costs' = Costs(s)
           /\ gross_profit' = GrossProfit(s)
           /\ taxes' = Taxes(s)
           /\ net_cash_flow' = NetCashFlow(s)
           /\ net_cash_flows' = Append(net_cash_flows, NetCashFlow(s))
    /\ year' = year + 1
    /\ UNCHANGED <<args, pc, npv_simulations, simulated_sales, npv, stats,
                   draws, trial>>

(* Lines 18-19: discount the trial's cash flows and record its NPV. *)
EndTrial ==
    /\ pc = "years"
    /\ year = Len(simulated_sales)
    /\ npv' = NPV(net_cash_flows, discount_rate, years, initial_investment)
    /\ npv_simulations' = AppendResult(npv_simulations, npv')
    /\ trial' = trial + 1
    /\ pc' = "trials"
    /\ UNCHANGED <<args, simulated_sales, net_cash_flows, locals, stats,
                   draws, year>>

(* Line 20: the loop is exhausted and the engine returns. *)
Return ==
    /\ pc = "trials"
    /\ ~LoopContinues(trial, num_simulations)
    /\ pc' = "returned"
    /\ UNCHANGED <<args, npv_simulations, simulated_sales, net_cash_flows,
                   locals, npv, stats, draws, trial, year>>

(* Lines 48-50 on a result with at least one sample. *)
Summarize ==
    /\ pc = "returned"
    /\ Len(npv_simulations) > 0
    /\ npv_mean' = Mean(npv_simulations)
    /\ percentile_5' = Percentile(npv_simulations, 5)
    /\ percentile_95' = Percentile(npv_simulations, 95)
    /\ pc' = "done"
    /\ UNCHANGED <<args, npv_simulations, simulated_sales, net_cash_flows,
                   locals, npv, raised, draws, trial, year>>

(* Lines 48-50 on an empty result: np.mean returns nan (with a warning),  *)
(* np.percentile returns nan or raises, depending on the numpy release.   *)
SummarizeEmpty ==
    /\ pc = "returned"
    /\ Len(npv_simulations) = 0
    /\ npv_mean' = Mean(npv_simulations)
    /\ \E outcome \in EmptyPercentile :
          IF outcome = "nan"
          THEN /\ percentile_5' = NaN
               /\ percentile_95' = NaN
               /\ raised' = "none"
               /\ pc' = "done"
          ELSE /\ raised' = outcome
               /\ pc' = "failed"
               /\ UNCHANGED <<percentile_5, percentile_95>>
    /\ UNCHANGED <<args, npv_simulations, simulated_sales, net_cash_flows,
                   locals, npv, draws, trial, year>>

Next ==
    \/ RunSimulation
    \/ BeginTrial
    \/ YearStep
    \/ EndTrial
    \/ Return
    \/ Summarize
    \/ SummarizeEmpty

Spec == Init /\ [][Next]_vars

(* The engine is one synchronous call: once started, each of its steps is  *)
(* taken.  Pressing the button and displaying the summary are not forced.  *)
(* Control flow does not read the rates or the investment, so one value of *)
(* each is run.                                                            *)
FairInit ==
    /\ Init
    /\ discount_rate = Rat(1, 10)
    /\ tax_rate = Rat(3, 10)
    /\ initial_investment = Rat(2000, 1)

FairSpec ==
    /\ FairInit
    /\ [][Next]_vars
    /\ WF_vars(BeginTrial)
    /\ WF_vars(YearStep)
    /\ WF_vars(EndTrial)
    /\ WF_vars(Return)

(* ------------- the summary statistics as a pure function -------------- *)

MaxLen == 3

MaxSkew == 21

Samples == {Rat(-19200, 11), Rat(0, 1), Rat(7, 3)}

RECURSIVE SeqsUpTo(_)
SeqsUpTo(n) ==
    IF n = 0 THEN {<< >>}
    ELSE SeqsUpTo(n - 1) \cup [1..n -> Samples]

(* Skewed results: `lows` samples far below and `highs` samples a little   *)
(* above the bulk, in ascending and in descending order.                  *)
Skewed(n, lows, highs) ==
    [k \in 1..n |-> IF k <= lows THEN Rat(-1000, 1)
                    ELSE IF k > n - highs THEN Rat(60, 1)
                    ELSE Rat(50, 1)]

Reversed(a) == [k \in 1..Len(a) |-> a[Len(a) + 1 - k]]

SkewedResults ==
    LET up == {Skewed(n, lows, highs) :
                  n \in 2..MaxSkew, lows \in 0..2, highs \in 0..2}
    IN  up \cup {Reversed(a) : a \in up}

Results == SeqsUpTo(MaxLen) \cup SkewedResults

SummaryInit ==
    /\ npv_simulations \in Results
    /\ num_simulations = Len(npv_simulations)
    /\ years = 1
    /\ discount_rate = None
    /\ base_sales = None
    /\ sales_deviation = None
    /\ variable_cost_pct = None
    /\ fixed_costs = None
    /\ tax_rate = None
    /\ initial_investment = None
    /\ pc = "returned"
    /\ simulated_sales = None
    /\ net_cash_flows = None
    /\ costs = None
    /\ gross_profit = None
    /\ taxes = None
    /\ net_cash_flow = None
    /\ npv = None
    /\ npv_mean = None
    /\ percentile_5 = None
    /\ percentile_95 = None
    /\ raised = "none"
    /\ draws = << >>
    /\ trial = num_simulations
    /\ year = 0

SummaryNext ==
    \/ Summarize
    \/ SummarizeEmpty

SummarySpec == SummaryInit /\ [][SummaryNext]_vars

(* ------------------------------- claims ------------------------------- *)

Returned == pc \in {"returned", "done", "failed"}

(* C1: for simulation_count >= 1 and horizon_years >= 1 the engine returns *)
(* exactly simulation_count samples, whatever the draws were.              *)
C1_SampleCount ==
    (Returned /\ num_simulations >= 1 /\ years >= 1)
        => Len(npv_simulations) = num_simulations

C1_Witness ==
    /\ pc = "returned"
    /\ num_simulations = MaxSims
    /\ sales_deviation # Zero
    /\ \E i, j \in 1..Len(draws) : draws[i] # draws[j]

(* The deterministic discounted cash flow, written as the closed formula:  *)
(* sum over t in 0..years-1 of ((S - (v*S + F)) * (1 - tax)) / (1+r)^(t+1), *)
(* minus the investment.                                                   *)
RECURSIVE AnalyticSum(_)
AnalyticSum(t) ==
    IF t < 0 THEN Zero
    ELSE RAdd(AnalyticSum(t - 1),
              RDiv(RMul(RSub(base_sales,
                             RAdd(RMul(variable_cost_pct, base_sales),
                                  fixed_costs)),
                        RSub(One, tax_rate)),
                   RPow(RAdd(One, discount_rate), t + 1)))

AnalyticNPV == RSub(AnalyticSum(years - 1), initial_investment)

ConcreteScenario ==
    /\ num_simulations = 1
    /\ years = 1
    /\ discount_rate = Rat(10, 100)
    /\ base_sales = Rat(1000, 1)
    /\ sales_deviation = Zero
    /\ variable_cost_pct = Rat(40, 100)
    /\ fixed_costs = Rat(200, 1)
    /\ tax_rate = Rat(30, 100)
    /\ initial_investment = Rat(2000, 1)

(* C2: with sales_deviation = 0 every draw is base_sales, every sample is  *)
(* the same and equals the analytic deterministic value; in the concrete   *)
(* scenario costs = 600, gross_profit = 400, taxes = 120, net_cash_flow =  *)
(* 280 and the NPV is 280/1.10 - 2000, about -1745.45.                     *)
C2_Deterministic ==
    (Returned /\ sales_deviation = Zero) =>
        /\ \A k \in 1..Len(draws) : draws[k] = base_sales
        /\ \A i \in 1..Len(npv_simulations) : npv_simulations[i] = AnalyticNPV
        /\ ConcreteScenario =>
              /\ costs = Rat(600, 1)
              /\ gross_profit = Rat(400, 1)
              /\ taxes = Rat(120, 1)
              /\ net_cash_flow = Rat(280, 1)
              /\ npv_simulations =
                    <<RSub(RDiv(Rat(280, 1), Rat(110, 100)), Rat(2000, 1))>>
              /\ RLess(Rat(-174546, 100), npv_simulations[1])
              /\ RLess(npv_simulations[1], Rat(-174545, 100))

C2_Witness == pc = "returned" /\ ConcreteScenario

Deltas == {Rat(100, 1), Rat(1, 3)}

C5_Original == num_simulations = 0 => pc # "returned"

(* C5, amended: the engine validates nothing and raises nothing; with      *)
(* simulation_count = 0 it returns an empty result normally, having        *)
(* consumed no draw.                                                       *)
C5_ZeroRun ==
    /\ pc \in {"idle", "trials", "years", "returned"} => raised = "none"
    /\ (num_simulations = 0 /\ Returned) =>
          /\ npv_simulations = << >>
          /\ draws = << >>

C5_Witness == num_simulations = 0 /\ pc = "returned" /\ raised = "none"

(* C6: for every non-empty result p5 <= p95 (the mean need not lie         *)
(* between them).                                                          *)
C6_PercentileOrder ==
    (pc = "done" /\ Len(npv_simulations) > 0)
        => RLeq(percentile_5, percentile_95)

(* A non-empty result whose mean lies below its 5th percentile. *)
C6_Witness ==
    /\ pc = "done"
    /\ Len(npv_simulations) > 0
    /\ RLess(percentile_5, percentile_95)
    /\ RLess(npv_mean, percentile_5)

Range(a) == {a[k] : k \in DOMAIN a}

(* The k-th order statistic, by rank. *)
OrderStat(a, k) ==
    CHOOSE x \in Range(a) :
        /\ Cardinality({j \in DOMAIN a : RLess(a[j], x)}) < k
        /\ Cardinality({j \in DOMAIN a : RLeq(a[j], x)}) >= k

(* index = p/100 * (n-1), interpolated between the bracketing order        *)
(* statistics.                                                             *)
Interpolated(a, p) ==
    LET index == RMul(RDiv(Rat(p, 1), Rat(100, 1)), Rat(Len(a) - 1, 1))
        below == index[1] \div index[2]
        above == IF index[2] = 1 THEN below ELSE below + 1
        frac  == RSub(index, Rat(below, 1))
    IN  RAdd(RMul(RSub(One, frac), OrderStat(a, below + 1)),
             RMul(frac, OrderStat(a, above + 1)))

RECURSIVE TotalNum(_, _, _)
TotalNum(a, n, den) ==
    IF n = 0 THEN 0 ELSE TotalNum(a, n - 1, den) + a[n][1] * (den \div a[n][2])

RECURSIVE CommonDen(_, _)
CommonDen(a, n) == IF n = 0 THEN 1 ELSE LCM(CommonDen(a, n - 1), a[n][2])

(* The exact total of the samples, over their common denominator. *)
Total(a) == Rat(TotalNum(a, Len(a), CommonDen(a, Len(a))), CommonDen(a, Len(a)))

(* C7: for a non-empty result of n samples the summary is the arithmetic   *)
(* mean and, for p in {5, 95}, the value at index p/100 * (n-1) of the     *)
(* sorted samples, linearly interpolated between the two bracketing order  *)
(* statistics; for n = 1 both percentiles are the single sample.           *)
C7_Summary ==
    (pc = "done" /\ Len(npv_simulations) > 0) =>
        /\ RMul(npv_mean, Rat(Len(npv_simulations), 1)) = Total(npv_simulations)
        /\ percentile_5 = Interpolated(npv_simulations, 5)
        /\ percentile_95 = Interpolated(npv_simulations, 95)
        /\ Len(npv_simulations) = 1 =>
              /\ percentile_5 = npv_simulations[1]
              /\ percentile_95 = npv_simulations[1]

C7_Witness ==
    /\ pc = "done"
    /\ Len(npv_simulations) = 3
    /\ npv_simulations[1] # npv_simulations[2]
    /\ RLess(npv_simulations[3], npv_simulations[1])
    /\ percentile_5 # npv_simulations[3]
    /\ percentile_95 # npv_simulations[1]

(* C8: the result is a function of the parameters and the draws, in trial  *)
(* order: its i-th element is the NPV of the i-th block of `years` draws.  *)
C8_TrialOrder ==
    /\ pc = "trials" =>
          \A i \in 1..Len(npv_simulations) :
              npv_simulations[i] = TrialNPV(Block(draws, i), initial_investment)
    /\ pc = "returned" =>
          npv_simulations = monte_carlo_simulation(draws, initial_investment)

C8_Witness ==
    /\ pc = "returned"
    /\ num_simulations = 2
    /\ Block(draws, 1) # Block(draws, 2)
    /\ npv_simulations[1] # npv_simulations[2]
    /\ RLess(npv_simulations[2], npv_simulations[1])

YearDone == pc = "years" /\ year >= 1

(* C9 as stated: the year's net cash flow is (s - (v*s + F)) * (1 - tax)   *)
(* for every sampled s, and whenever gross_profit is negative, taxes and   *)
(* the net cash flow are negative too.                                     *)
C9_Original ==
    YearDone =>
        LET s == simulated_sales[year]
        IN  /\ net_cash_flow =
                  RMul(RSub(s, RAdd(RMul(variable_cost_pct, s), fixed_costs)),
                       RSub(One, tax_rate))
            /\ RLess(gross_profit, Zero) =>
                  /\ RLess(taxes, Zero)
                  /\ RLess(net_cash_flow, Zero)

(* C9, amended: no clamping: the year's net cash flow is exactly           *)
(* (s - (v*s + F)) * (1 - tax) for every sampled s, negative s included;   *)
(* when gross_profit is negative, taxes = gross_profit * tax_rate is       *)
(* negative for tax_rate > 0 (zero for tax_rate = 0) and the net cash flow *)
(* is negative for tax_rate < 1 (zero only at tax_rate = 1).               *)
C9_NoClamping ==
    YearDone =>
        LET s == simulated_sales[year]
        IN  /\ net_cash_flow =
                  RMul(RSub(s, RAdd(RMul(variable_cost_pct, s), fixed_costs)),
                       RSub(One, tax_rate))
            /\ net_cash_flows[Len(net_cash_flows)] = net_cash_flow
            /\ taxes = RMul(gross_profit, tax_rate)
            /\ RLess(gross_profit, Zero) =>
                  /\ RLess(Zero, tax_rate) => RLess(taxes, Zero)
                  /\ tax_rate = Zero => taxes = Zero
                  /\ RLess(tax_rate, One) => RLess(net_cash_flow, Zero)
                  /\ tax_rate = One => net_cash_flow = Zero

C9_Witness ==
    /\ YearDone
    /\ RLess(simulated_sales[year], Zero)
    /\ RLess(gross_profit, Zero)
    /\ RLess(taxes, Zero)
    /\ RLess(net_cash_flow, Zero)

(* C10: a run terminates: the trial loop runs to completion and the engine *)
(* returns having consumed exactly simulation_count * horizon_years draws, *)
(* horizon_years per trial, each trial starting from fresh cash flows.     *)
C10_Terminates ==
    /\ [][args' = args]_vars
    /\ [](pc = "returned" =>
            /\ trial = num_simulations
            /\ Len(draws) = num_simulations * years)
    /\ [](pc = "years" =>
            /\ Len(simulated_sales) = years
            /\ Len(draws) = (trial + 1) * years
            /\ Len(net_cash_flows) = year)
    /\ (pc = "trials") ~> (pc = "returned")

C10_Witness ==
    /\ pc = "returned"
    /\ num_simulations = MaxSims
    /\ years = MaxYears
    /\ Len(draws) = MaxSims * MaxYears

====
